---- MODULE Spec2Model ----
(***************************************************************************)
(* Model of the Genkit demonstration program (package main): the qaFlow    *)
(* and cyclingRAG flows run by main, and the feed pipeline behind          *)
(* cyclingRAG: fetchRSSItems, fetchFirstWorkingFeed, filterTransferItems,  *)
(* fetchCyclingContext and logRAGSummaries.                                *)
(*                                                                         *)
(* A Go string whose text the program reads or writes (titles, dates,      *)
(* snippets, keywords, answers, log formats) is the sequence of its        *)
(* Unicode code points, so that lower-casing, substring search, trimming,  *)
(* splitting and formatting are computed: "Ab" is <<65, 98>>.  A string    *)
(* that is only stored and compared (a URL, an item link) is a TLA+        *)
(* string.  A nil slice and an empty slice are both << >>: the program     *)
(* only ever takes len() of them or ranges over them.                      *)
(***************************************************************************)
EXTENDS Integers, Sequences, FiniteSets, TLC

VARIABLES
    pc,            \* position of main / of the running flow
    feedIdx,       \* fetchCyclingContext: index of the source being processed
    urls,          \* fetchFirstWorkingFeed: its parameter urls
    urlIdx,        \* fetchFirstWorkingFeed: index of the next candidate URL
    attempts,      \* fetchFirstWorkingFeed: the fetches of the current call, in order,
                   \* each with what the network answered and what fetchRSSItems returned
    fetched,       \* the URLs of all GET requests issued so far, in order
    resolved,      \* what fetchFirstWorkingFeed returned: [items, url, err]
    results,       \* what fetchFirstWorkingFeed returned for each source so far
    snippets,      \* fetchCyclingContext: accumulated snippet lines
    sources,       \* fetchCyclingContext: accumulated source URLs
    ctxErr,        \* the error fetchCyclingContext returned
    ragOut,        \* what ragFlow.Run returned: [answer, sources, err]
    log,           \* the lines written through package log, in order: [fmt, args]
    exit,          \* process status: "running", "fatal" (log.Fatal) or "ok"
    fnArg,         \* argument of the function under test (function specifications)
    fnRes,         \* its result
    fnRes2         \* the result of applying it to its own result

vars == <<pc, feedIdx, urls, urlIdx, attempts, fetched, resolved, results,
          snippets, sources, ctxErr, ragOut, log, exit, fnArg, fnRes, fnRes2>>

(***************************************************************************)
(* Bounds of the model.                                                    *)
(***************************************************************************)
\* longest candidate-URL list handed to fetchFirstWorkingFeed on its own
MaxUrls == 2
\* longest feed document (in items) fetched by the whole program
MaxItems == 2
\* longest feed document handed to fetchRSSItems on its own (exceeds the limit)
MaxFeedLen == 6
\* longest item list handed to filterTransferItems on its own
MaxFilterLen == 3

(***************************************************************************)
(* Program constants.                                                      *)
(***************************************************************************)
maxItemsPerFeed == 5

\* the two configured sources, each with its one candidate URL; the first
\* name is "L'Equipe (Cyclisme)" with U+00C9 for its E
cyclingFeeds ==
  << [name |-> <<76, 39, 201, 113, 117, 105, 112, 101, 32, 40, 67, 121, 99,
      108, 105, 115, 109, 101, 41>>,
      urls |-> <<"https://dwh.lequipe.fr/api/edito/rss?path=/Cyclisme/">>],
     [name |-> <<68, 105, 114, 101, 99, 116, 86, 101, 108, 111>>,
      urls |-> <<"https://feeds.feedburner.com/ActualitsDirectvelo">>] >>

\* "transfert", "transfer", "mutation", "mercato", "signe", "signature",
\* "recrut", "rejoint", "quitte", "engage", "arrive", "contrat", "renforce"
transferKeywords ==
  << <<116, 114, 97, 110, 115, 102, 101, 114, 116>>,
     <<116, 114, 97, 110, 115, 102, 101, 114>>,
     <<109, 117, 116, 97, 116, 105, 111, 110>>,
     <<109, 101, 114, 99, 97, 116, 111>>,
     <<115, 105, 103, 110, 101>>,
     <<115, 105, 103, 110, 97, 116, 117, 114, 101>>,
     <<114, 101, 99, 114, 117, 116>>,
     <<114, 101, 106, 111, 105, 110, 116>>,
     <<113, 117, 105, 116, 116, 101>>,
     <<101, 110, 103, 97, 103, 101>>,
     <<97, 114, 114, 105, 118, 101>>,
     <<99, 111, 110, 116, 114, 97, 116>>,
     <<114, 101, 110, 102, 111, 114, 99, 101>> >>

\* "date inconnue", the placeholder used for an item without publication date
DateInconnue == <<100, 97, 116, 101, 32, 105, 110, 99, 111, 110, 110, 117,
      101>>

\* the fallback snippet of fetchCyclingContext: "- Aucun flux cyclisme
\* accessible pour le moment. ..." (line 189)
FallbackSnippet ==
  <<45, 32, 65, 117, 99, 117, 110, 32, 102, 108, 117, 120, 32, 99, 121, 99,
      108, 105, 115, 109, 101, 32, 97, 99, 99, 101, 115, 115, 105, 98, 108,
      101, 32, 112, 111, 117, 114, 32, 108, 101, 32, 109, 111, 109, 101, 110,
      116, 46, 32, 82, 233, 112, 111, 110, 100, 115, 32, 100, 101, 32, 102,
      97, 231, 111, 110, 32, 103, 233, 110, 233, 114, 97, 108, 101, 32, 101,
      116, 32, 112, 114, 117, 100, 101, 110, 116, 101, 32, 115, 117, 114, 32,
      108, 101, 115, 32, 116, 114, 97, 110, 115, 102, 101, 114, 116, 115, 32,
      114, 233, 99, 101, 110, 116, 115, 46>>

\* the question main puts to qaFlow and logs (lines 103 and 109)
QaQuestion ==
  <<76, 101, 32, 109, 97, 103, 97, 122, 105, 110, 101, 32, 80, 114, 111, 103,
      114, 97, 109, 109, 101, 122, 33, 44, 32, 100, 111, 110, 110, 101, 45,
      109, 111, 105, 32, 108, 101, 115, 32, 105, 110, 102, 111, 114, 109, 97,
      116, 105, 111, 110, 115, 32, 112, 114, 105, 110, 99, 105, 112, 97, 108,
      101, 115, 32, 101, 110, 32, 116, 114, 111, 105, 115, 32, 112, 104, 114,
      97, 115, 101, 115, 46>>

(***************************************************************************)
(* The texts handed to package log.                                        *)
(***************************************************************************)
\* "Question : %s"
FmtQuestion == <<81, 117, 101, 115, 116, 105, 111, 110, 32, 58, 32, 37, 115>>
\* "Reponse : %s", its first e being U+00E9
FmtReponse == <<82, 233, 112, 111, 110, 115, 101, 32, 58, 32, 37, 115>>
\* "---- Debut RAG cyclisme ----", its e being U+00E9
LineDebut == <<45, 45, 45, 45, 32, 68, 233, 98, 117, 116, 32, 82, 65, 71, 32,
      99, 121, 99, 108, 105, 115, 109, 101, 32, 45, 45, 45, 45>>
\* "RAG cycling error: %v"
FmtRAGError == <<82, 65, 71, 32, 99, 121, 99, 108, 105, 110, 103, 32, 101,
      114, 114, 111, 114, 58, 32, 37, 118>>
\* "---- Fin RAG cyclisme ----"
LineFin == <<45, 45, 45, 45, 32, 70, 105, 110, 32, 82, 65, 71, 32, 99, 121,
      99, 108, 105, 115, 109, 101, 32, 45, 45, 45, 45>>
\* "skip feed %s: %v"
FmtSkipFeed == <<115, 107, 105, 112, 32, 102, 101, 101, 100, 32, 37, 115, 58,
      32, 37, 118>>
\* "warning: aucun flux cyclisme accessible, usage d'un contexte de secours."
FmtWarning ==
  <<119, 97, 114, 110, 105, 110, 103, 58, 32, 97, 117, 99, 117, 110, 32, 102,
      108, 117, 120, 32, 99, 121, 99, 108, 105, 115, 109, 101, 32, 97, 99, 99,
      101, 115, 115, 105, 98, 108, 101, 44, 32, 117, 115, 97, 103, 101, 32,
      100, 39, 117, 110, 32, 99, 111, 110, 116, 101, 120, 116, 101, 32, 100,
      101, 32, 115, 101, 99, 111, 117, 114, 115, 46>>
\* "Mutations detectees :", with U+00E9 for the accented letters
LineMutations == <<77, 117, 116, 97, 116, 105, 111, 110, 115, 32, 100, 233,
      116, 101, 99, 116, 233, 101, 115, 32, 58>>
\* "- %s"
FmtSummary == <<45, 32, 37, 115>>
\* "feed attempt failed (%s): %v"
FmtAttemptFailed == <<102, 101, 101, 100, 32, 97, 116, 116, 101, 109, 112,
      116, 32, 102, 97, 105, 108, 101, 100, 32, 40, 37, 115, 41, 58, 32, 37,
      118>>

\* log.Printf(format, args...): one line, kept as its format and arguments
Printf(format, args) == [fmt |-> format, args |-> args]
\* log.Println(text): one line holding the text
Println(text) == [fmt |-> text, args |-> << >>]
\* log.Fatal(err): one line holding the error in its default format; the
\* caller then ends the process
Fatal(err) == [fmt |-> <<37, 118>>, args |-> <<err>>]

(***************************************************************************)
(* Errors.  A Go error is a record; the nil error is NilErr.               *)
(***************************************************************************)
NilErr == [kind |-> "nil"]
NetworkError == [kind |-> "NetworkError"]
RequestError == [kind |-> "RequestError"]
ParseError == [kind |-> "ParseError"]
HTTPStatusError(code) == [kind |-> "HTTPStatusError", status |-> code]
AllSourcesExhausted(candidates) ==
    [kind |-> "AllSourcesExhausted", urls |-> candidates]
\* the error of genkit.Init and the error of genkit.Generate
InitError == [kind |-> "InitError"]
LLMError == [kind |-> "LLMError"]

(***************************************************************************)
(* Package strings on sequences of code points.                            *)
(***************************************************************************)
\* unicode.CaseRanges, reduced to the lower-case mapping of the characters
\* above U+007F: each entry <<Lo, Hi, stride, delta>> says that the characters
\* Lo, Lo + stride, ... up to Hi have the lower case that lies delta further
CaseRanges ==
  << <<192, 214, 1, 32>>, <<216, 222, 1, 32>>, <<256, 302, 2, 1>>,
     <<304, 304, 1, -199>>, <<306, 310, 2, 1>>, <<313, 327, 2, 1>>,
     <<330, 374, 2, 1>>, <<376, 376, 1, -121>>, <<377, 381, 2, 1>>,
     <<385, 385, 1, 210>>, <<386, 388, 2, 1>>, <<390, 390, 1, 206>>,
     <<391, 391, 1, 1>>, <<393, 394, 1, 205>>, <<395, 395, 1, 1>>,
     <<398, 398, 1, 79>>, <<399, 399, 1, 202>>, <<400, 400, 1, 203>>,
     <<401, 401, 1, 1>>, <<403, 403, 1, 205>>, <<404, 404, 1, 207>>,
     <<406, 406, 1, 211>>, <<407, 407, 1, 209>>, <<408, 408, 1, 1>>,
     <<412, 412, 1, 211>>, <<413, 413, 1, 213>>, <<415, 415, 1, 214>>,
     <<416, 420, 2, 1>>, <<422, 422, 1, 218>>, <<423, 423, 1, 1>>,
     <<425, 425, 1, 218>>, <<428, 428, 1, 1>>, <<430, 430, 1, 218>>,
     <<431, 431, 1, 1>>, <<433, 434, 1, 217>>, <<435, 437, 2, 1>>,
     <<439, 439, 1, 219>>, <<440, 440, 1, 1>>, <<444, 444, 1, 1>>,
     <<452, 452, 1, 2>>, <<453, 453, 1, 1>>, <<455, 455, 1, 2>>,
     <<456, 456, 1, 1>>, <<458, 458, 1, 2>>, <<459, 475, 2, 1>>,
     <<478, 494, 2, 1>>, <<497, 497, 1, 2>>, <<498, 500, 2, 1>>,
     <<502, 502, 1, -97>>, <<503, 503, 1, -56>>, <<504, 542, 2, 1>>,
     <<544, 544, 1, -130>>, <<546, 562, 2, 1>>, <<570, 570, 1, 10795>>,
     <<571, 571, 1, 1>>, <<573, 573, 1, -163>>, <<574, 574, 1, 10792>>,
     <<577, 577, 1, 1>>, <<579, 579, 1, -195>>, <<580, 580, 1, 69>>,
     <<581, 581, 1, 71>>, <<582, 590, 2, 1>>, <<880, 882, 2, 1>>,
     <<886, 886, 1, 1>>, <<895, 895, 1, 116>>, <<902, 902, 1, 38>>,
     <<904, 906, 1, 37>>, <<908, 908, 1, 64>>, <<910, 911, 1, 63>>,
     <<913, 929, 1, 32>>, <<931, 939, 1, 32>>, <<975, 975, 1, 8>>,
     <<984, 1006, 2, 1>>, <<1012, 1012, 1, -60>>, <<1015, 1015, 1, 1>>,
     <<1017, 1017, 1, -7>>, <<1018, 1018, 1, 1>>, <<1021, 1023, 1, -130>>,
     <<1024, 1039, 1, 80>>, <<1040, 1071, 1, 32>>, <<1120, 1152, 2, 1>>,
     <<1162, 1214, 2, 1>>, <<1216, 1216, 1, 15>>, <<1217, 1229, 2, 1>>,
     <<1232, 1326, 2, 1>>, <<1329, 1366, 1, 48>>, <<4256, 4293, 1, 7264>>,
     <<4295, 4295, 1, 7264>>, <<4301, 4301, 1, 7264>>,
     <<5024, 5103, 1, 38864>>, <<5104, 5109, 1, 8>>, <<7312, 7354, 1, -3008>>,
     <<7357, 7359, 1, -3008>>, <<7680, 7828, 2, 1>>, <<7838, 7838, 1, -7615>>,
     <<7840, 7934, 2, 1>>, <<7944, 7951, 1, -8>>, <<7960, 7965, 1, -8>>,
     <<7976, 7983, 1, -8>>, <<7992, 7999, 1, -8>>, <<8008, 8013, 1, -8>>,
     <<8025, 8031, 2, -8>>, <<8040, 8047, 1, -8>>, <<8072, 8079, 1, -8>>,
     <<8088, 8095, 1, -8>>, <<8104, 8111, 1, -8>>, <<8120, 8121, 1, -8>>,
     <<8122, 8123, 1, -74>>, <<8124, 8124, 1, -9>>, <<8136, 8139, 1, -86>>,
     <<8140, 8140, 1, -9>>, <<8152, 8153, 1, -8>>, <<8154, 8155, 1, -100>>,
     <<8168, 8169, 1, -8>>, <<8170, 8171, 1, -112>>, <<8172, 8172, 1, -7>>,
     <<8184, 8185, 1, -128>>, <<8186, 8187, 1, -126>>, <<8188, 8188, 1, -9>>,
     <<8486, 8486, 1, -7517>>, <<8490, 8490, 1, -8383>>,
     <<8491, 8491, 1, -8262>>, <<8498, 8498, 1, 28>>, <<8544, 8559, 1, 16>>,
     <<8579, 8579, 1, 1>>, <<9398, 9423, 1, 26>>, <<11264, 11311, 1, 48>>,
     <<11360, 11360, 1, 1>>, <<11362, 11362, 1, -10743>>,
     <<11363, 11363, 1, -3814>>, <<11364, 11364, 1, -10727>>,
     <<11367, 11371, 2, 1>>, <<11373, 11373, 1, -10780>>,
     <<11374, 11374, 1, -10749>>, <<11375, 11375, 1, -10783>>,
     <<11376, 11376, 1, -10782>>, <<11378, 11378, 1, 1>>,
     <<11381, 11381, 1, 1>>, <<11390, 11391, 1, -10815>>,
     <<11392, 11490, 2, 1>>, <<11499, 11501, 2, 1>>, <<11506, 11506, 1, 1>>,
     <<42560, 42604, 2, 1>>, <<42624, 42650, 2, 1>>, <<42786, 42798, 2, 1>>,
     <<42802, 42862, 2, 1>>, <<42873, 42875, 2, 1>>,
     <<42877, 42877, 1, -35332>>, <<42878, 42886, 2, 1>>,
     <<42891, 42891, 1, 1>>, <<42893, 42893, 1, -42280>>,
     <<42896, 42898, 2, 1>>, <<42902, 42920, 2, 1>>,
     <<42922, 42922, 1, -42308>>, <<42923, 42923, 1, -42319>>,
     <<42924, 42924, 1, -42315>>, <<42925, 42925, 1, -42305>>,
     <<42926, 42926, 1, -42308>>, <<42928, 42928, 1, -42258>>,
     <<42929, 42929, 1, -42282>>, <<42930, 42930, 1, -42261>>,
     <<42931, 42931, 1, 928>>, <<42932, 42946, 2, 1>>,
     <<42948, 42948, 1, -48>>, <<42949, 42949, 1, -42307>>,
     <<42950, 42950, 1, -35384>>, <<42951, 42953, 2, 1>>,
     <<42960, 42960, 1, 1>>, <<42966, 42968, 2, 1>>, <<42997, 42997, 1, 1>>,
     <<65313, 65338, 1, 32>>, <<66560, 66599, 1, 40>>,
     <<66736, 66771, 1, 40>>, <<66928, 66938, 1, 39>>,
     <<66940, 66954, 1, 39>>, <<66956, 66962, 1, 39>>,
     <<66964, 66965, 1, 39>>, <<68736, 68786, 1, 64>>,
     <<71840, 71871, 1, 32>>, <<93760, 93791, 1, 32>>,
     <<125184, 125217, 1, 34>> >>

\* unicode.ToLower: the letters A-Z directly, any other character through
\* CaseRanges; a character in no range is its own lower case
ToLowerChar(c) ==
    IF c < 128 THEN (IF c \in 65..90 THEN c + 32 ELSE c)
    ELSE LET hits == {i \in 1..Len(CaseRanges) :
                        /\ CaseRanges[i][1] <= c
                        /\ c <= CaseRanges[i][2]
                        /\ (c - CaseRanges[i][1]) % CaseRanges[i][3] = 0}
         IN  IF hits = {} THEN c
             ELSE c + CaseRanges[CHOOSE i \in hits : TRUE][4]

\* strings.ToLower
ToLower(s) == [i \in 1..Len(s) |-> ToLowerChar(s[i])]

\* a variant that only looks at the start of the string
ContainsPrefixOnly(s, substr) ==
    Len(substr) <= Len(s) /\ SubSeq(s, 1, Len(substr)) = substr

\* strings.Contains
Contains(s, substr) ==
    \E i \in 0..(Len(s) - Len(substr)) : SubSeq(s, i + 1, i + Len(substr)) = substr

\* unicode.IsSpace
IsSpace(c) ==
    \/ c \in 9..13
    \/ c \in {32, 133, 160, 5760, 8232, 8233, 8239, 8287, 12288}
    \/ c \in 8192..8202

\* strings.TrimSpace: the string without its leading and trailing white space
RECURSIVE TrimLeft(_)
TrimLeft(s) ==
    IF s # << >> /\ IsSpace(Head(s)) THEN TrimLeft(Tail(s)) ELSE s

RECURSIVE TrimRight(_)
TrimRight(s) ==
    IF s # << >> /\ IsSpace(s[Len(s)]) THEN TrimRight(SubSeq(s, 1, Len(s) - 1))
    ELSE s

TrimSpace(s) == TrimRight(TrimLeft(s))

\* strings.HasPrefix and strings.TrimPrefix
HasPrefix(s, prefix) ==
    Len(prefix) <= Len(s) /\ SubSeq(s, 1, Len(prefix)) = prefix

TrimPrefix(s, prefix) ==
    IF HasPrefix(s, prefix) THEN SubSeq(s, Len(prefix) + 1, Len(s)) ELSE s

\* strings.Split for a non-empty separator: the pieces of s between the
\* occurrences of sep, found from left to right
RECURSIVE SplitFrom(_, _, _, _, _)
SplitFrom(s, sep, i, piece, pieces) ==
    IF i > Len(s) THEN Append(pieces, piece)
    ELSE IF i + Len(sep) - 1 <= Len(s) /\ SubSeq(s, i, i + Len(sep) - 1) = sep
         THEN SplitFrom(s, sep, i + Len(sep), << >>, Append(pieces, piece))
         ELSE SplitFrom(s, sep, i + 1, Append(piece, s[i]), pieces)

Split(s, sep) == SplitFrom(s, sep, 1, << >>, << >>)

(***************************************************************************)
(* filterTransferItems                                                     *)
(***************************************************************************)
\* a variant of the inner loop that goes on after a match
RECURSIVE KeywordLoopNoBreak(_, _, _, _)
KeywordLoopNoBreak(filtered, it, titleLower, k) ==
    IF k > Len(transferKeywords) THEN filtered
    ELSE IF Contains(titleLower, transferKeywords[k])
         THEN KeywordLoopNoBreak(Append(filtered, it), it, titleLower, k + 1)
         ELSE KeywordLoopNoBreak(filtered, it, titleLower, k + 1)

\* the inner loop over transferKeywords: append the item at the first keyword
\* its lower-cased title contains, and break
RECURSIVE KeywordLoop(_, _, _, _)
KeywordLoop(filtered, it, titleLower, k) ==
    IF k > Len(transferKeywords) THEN filtered
    ELSE IF Contains(titleLower, transferKeywords[k])
         THEN Append(filtered, it)
         ELSE KeywordLoop(filtered, it, titleLower, k + 1)

\* the outer loop over items
RECURSIVE FilterLoop(_, _, _)
FilterLoop(items, i, filtered) ==
    IF i > Len(items) THEN filtered
    ELSE FilterLoop(items, i + 1,
                    KeywordLoop(filtered, items[i], ToLower(items[i].Title), 1))

\* a variant without the fall-back to the original list
filterTransferItemsNoFallback(items) == FilterLoop(items, 1, << >>)

filterTransferItems(items) ==
    LET filtered == FilterLoop(items, 1, << >>)
    IN  IF Len(filtered) = 0 THEN items ELSE filtered

(***************************************************************************)
(* fetchRSSItems.  The network's answer to one GET is a record             *)
(*   request    : http.NewRequestWithContext built the request (it does    *)
(*                for every well-formed URL, the GET method and a non-nil  *)
(*                context, which is all the program passes)                *)
(*   transport  : client.Do returned a response (no transport error,       *)
(*                no timeout)                                              *)
(*   StatusCode : resp.StatusCode                                          *)
(*   decodes    : the XML decoder accepted the body                        *)
(*   Items      : feed.Channel.Items of the decoded body                   *)
(***************************************************************************)
\* a variant that cuts one item too many
TruncateOffByOne(items, limit) ==
    IF Len(items) >= limit /\ limit > 0 THEN SubSeq(items, 1, limit - 1) ELSE items

\* lines 263-266: items[:limit] when there are more than limit items
Truncate(items, limit) ==
    IF Len(items) > limit THEN SubSeq(items, 1, limit) ELSE items

\* a variant that decodes the body before it looks at the status
fetchRSSItemsStatusLast(feedURL, resp, limit) ==
    IF ~resp.request THEN [items |-> << >>, err |-> RequestError]
    ELSE IF ~resp.transport THEN [items |-> << >>, err |-> NetworkError]
    ELSE IF ~resp.decodes THEN [items |-> << >>, err |-> ParseError]
    ELSE IF resp.StatusCode < 200 \/ resp.StatusCode >= 300
         THEN [items |-> << >>, err |-> HTTPStatusError(resp.StatusCode)]
    ELSE [items |-> Truncate(resp.Items, limit), err |-> NilErr]

fetchRSSItems(feedURL, resp, limit) ==
    IF ~resp.request THEN [items |-> << >>, err |-> RequestError]
    ELSE IF ~resp.transport THEN [items |-> << >>, err |-> NetworkError]
    ELSE IF resp.StatusCode < 200 \/ resp.StatusCode >= 300
         THEN [items |-> << >>, err |-> HTTPStatusError(resp.StatusCode)]
    ELSE IF ~resp.decodes THEN [items |-> << >>, err |-> ParseError]
    ELSE [items |-> Truncate(resp.Items, limit), err |-> NilErr]

(***************************************************************************)
(* What the network and the model may answer.                              *)
(***************************************************************************)
\* "Transfert: X rejoint Y", dated "02 Jan"; the link is the URL of the first
\* source's feed itself
ItemA == [Title   |-> <<84, 114, 97, 110, 115, 102, 101, 114, 116, 58, 32, 88,
      32, 114, 101, 106, 111, 105, 110, 116, 32, 89>>,
          Link    |-> cyclingFeeds[1].urls[1],
          PubDate |-> <<48, 50, 32, 74, 97, 110>>]
\* "Etape 3", without link and date
ItemB == [Title   |-> <<69, 116, 97, 112, 101, 32, 51>>,
          Link    |-> "",
          PubDate |-> << >>]
\* "MERCATO"
ItemC == [Title   |-> <<77, 69, 82, 67, 65, 84, 79>>,
          Link    |-> "https://www.lequipe.fr/Cyclisme/Actualites/mercato",
          PubDate |-> << >>]
\* "X signe"
ItemD == [Title   |-> <<88, 32, 115, 105, 103, 110, 101>>,
          Link    |-> "https://www.directvelo.com/actualite/1",
          PubDate |-> << >>]
\* the empty title
ItemE == [Title   |-> << >>,
          Link    |-> "https://www.directvelo.com/actualite/2",
          PubDate |-> <<48, 50, 32, 74, 97, 110>>]
\* "Resultats etape 3" with U+00E9 for the first e of each word
ItemF == [Title   |-> <<82, 233, 115, 117, 108, 116, 97, 116, 115, 32, 233,
      116, 97, 112, 101, 32, 51>>,
          Link    |-> "",
          PubDate |-> <<48, 50, 32, 74, 97, 110>>]
\* "SIGNE chez Z" with U+0130, the dotted capital I, whose lower case is i
ItemG == [Title   |-> <<83, 304, 71, 78, 69, 32, 99, 104, 101, 122, 32, 90>>,
          Link    |-> "https://www.directvelo.com/actualite/3",
          PubDate |-> << >>]
\* "TRANSFERT" with U+00CA, the capital E with circumflex, for its E: lower
\* case has U+00EA there, which is in no keyword
ItemH == [Title   |-> <<84, 82, 65, 78, 83, 70, 202, 82, 84>>,
          Link    |-> "https://www.directvelo.com/actualite/4",
          PubDate |-> << >>]

\* "ALPHA MERCATO" in Greek capitals for its first word, U+0386 (alpha with
\* tonos) first, then the keyword in Latin capitals
ItemI == [Title   |-> <<902, 923, 934, 913, 32, 77, 69, 82, 67, 65, 84, 79>>,
          Link    |-> "https://www.directvelo.com/actualite/5",
          PubDate |-> << >>]
\* "Stefan Kontrat", its S being U+0218 (S with comma below) and its K
\* U+212A (the Kelvin sign, whose lower case is k): no keyword
ItemJ == [Title   |-> <<536, 116, 101, 102, 97, 110, 32, 8490, 111, 110, 116,
      114, 97, 116>>,
          Link    |-> "",
          PubDate |-> << >>]

\* all sequences over S of length at most n
SeqsUpTo(S, n) == UNION {[1..k -> S] : k \in 0..n}

\* status codes on both sides of the two ends of the 2xx range
StatusCodes == {199, 200, 299, 300, 404}

\* client.Do failed: there is no response
NoResponse ==
    [request |-> TRUE, transport |-> FALSE, StatusCode |-> 0, decodes |-> FALSE,
     Items |-> << >>]

\* a response with any status and a body that is either not a feed document
\* or a feed document with the items of one of the bodies
ResponsesOver(codes, bodies) ==
    {NoResponse}
    \cup [request : {TRUE}, transport : {TRUE}, StatusCode : codes,
          decodes : {FALSE}, Items : {<< >>}]
    \cup [request : {TRUE}, transport : {TRUE}, StatusCode : codes,
          decodes : {TRUE}, Items : bodies]

\* the items and documents seen by the whole program
ProgramItems == {ItemA, ItemB, ItemC}
ProgramResponses == ResponsesOver(StatusCodes, SeqsUpTo(ProgramItems, MaxItems))

\* the texts the model may answer: "answer"; five lines "* A -> B", " - C ",
\* "", "*-D" and "- * E"; the empty text
Answers ==
  { <<97, 110, 115, 119, 101, 114>>,
    <<42, 32, 65, 32, 45, 62, 32, 66, 10, 32, 45, 32, 67, 32, 10, 10, 42, 45,
      68, 10, 45, 32, 42, 32, 69>>,
    << >> }

(***************************************************************************)
(* fetchFirstWorkingFeed: the test of line 230.                            *)
(***************************************************************************)
\* a variant that forgets to look at the number of items
WorkingErrOnly(r) == r.err = NilErr

Working(r) == r.err = NilErr /\ Len(r.items) > 0

(***************************************************************************)
(* fetchCyclingContext: the body of the loop over one resolved source.     *)
(***************************************************************************)
\* lines 173-177: fmt.Sprintf("- %s (%s)", it.Title, date)
FormatSnippet(it) ==
    LET date == IF it.PubDate = << >> THEN DateInconnue ELSE it.PubDate
    IN  <<45, 32>> \o it.Title \o <<32, 40>> \o date \o <<41>>

RECURSIVE ItemLoop(_, _, _)
ItemLoop(kept, i, acc) ==
    IF i > Len(kept) THEN acc
    ELSE ItemLoop(kept, i + 1,
            [snippets |-> Append(acc.snippets, FormatSnippet(kept[i])),
             sources  |-> IF kept[i].Link # ""
                          THEN Append(acc.sources, kept[i].Link)
                          ELSE acc.sources])

\* a variant that does not add the feed URL when the list already holds it
AppendFeedDedup(acc, items, srcURL) ==
    LET after == ItemLoop(filterTransferItems(items), 1, acc)
    IN  [snippets |-> after.snippets,
         sources  |-> IF srcURL # "" /\ \A i \in 1..Len(after.sources) :
                                          after.sources[i] # srcURL
                      THEN Append(after.sources, srcURL)
                      ELSE after.sources]

\* lines 172-184: the snippets and sources after one resolved source
AppendFeed(acc, items, srcURL) ==
    LET after == ItemLoop(filterTransferItems(items), 1, acc)
    IN  [snippets |-> after.snippets,
         sources  |-> IF srcURL # "" THEN Append(after.sources, srcURL)
                      ELSE after.sources]

(***************************************************************************)
(* logRAGSummaries: the lines it writes.                                   *)
(***************************************************************************)
\* the loop over the lines of the answer: each line trimmed, freed of one
\* leading "*" and then of one leading "-", trimmed again, and written as
\* "- <line>" unless empty
RECURSIVE SummaryLoop(_, _, _)
SummaryLoop(lines, i, written) ==
    IF i > Len(lines) THEN written
    ELSE LET t1 == TrimSpace(lines[i])
             t2 == TrimPrefix(t1, <<42>>)
             t3 == TrimPrefix(t2, <<45>>)
             trimmed == TrimSpace(t3)
         IN  SummaryLoop(lines, i + 1,
                 IF trimmed # << >>
                 THEN Append(written, Printf(FmtSummary, <<trimmed>>))
                 ELSE written)

logRAGSummaries(answer) ==
    SummaryLoop(Split(answer, <<10>>), 1, <<Println(LineMutations)>>)

(***************************************************************************)
(* The program.                                                            *)
(***************************************************************************)
NoResult == [items |-> << >>, url |-> "", err |-> NilErr]
NoOutput == [answer |-> << >>, sources |-> << >>, err |-> NilErr]

ctxVars == <<feedIdx, urls, urlIdx, attempts, fetched, resolved, results,
             snippets, sources, ctxErr>>
fnVars == <<fnArg, fnRes, fnRes2>>

Init ==
    /\ pc = "init"
    /\ feedIdx = 0
    /\ urls = << >>
    /\ urlIdx = 0
    /\ attempts = << >>
    /\ fetched = << >>
    /\ resolved = NoResult
    /\ results = << >>
    /\ snippets = << >>
    /\ sources = << >>
    /\ ctxErr = NilErr
    /\ ragOut = NoOutput
    /\ log = << >>
    /\ exit = "running"
    /\ fnArg = << >>
    /\ fnRes = << >>
    /\ fnRes2 = << >>

\* genkit.Init: a failure is fatal
GenkitInit ==
    /\ pc = "init"
    /\ \E ok \in BOOLEAN :
         IF ok THEN pc' = "qaFlow" /\ exit' = exit /\ log' = log
         ELSE pc' = "fatal" /\ exit' = "fatal" /\ log' = Append(log, Fatal(InitError))
    /\ UNCHANGED <<ctxVars, ragOut, fnVars>>

\* a variant that goes on to the second flow whatever qaFlow.Run returned
QaFlowRunIgnoreError ==
    /\ pc = "qaFlow"
    /\ \E ok \in BOOLEAN : \E answer \in Answers :
         /\ pc' = "ragFlow"
         /\ exit' = exit
         /\ log' = IF ok
                   THEN log \o << Printf(FmtQuestion, <<QaQuestion>>),
                                  Printf(FmtReponse, <<answer>>),
                                  Println(<< >>),
                                  Println(LineDebut) >>
                   ELSE Append(log, Println(LineDebut))
    /\ UNCHANGED <<ctxVars, ragOut, fnVars>>

\* qaFlow.Run and the log lines that follow it; a failure is fatal
QaFlowRun ==
    /\ pc = "qaFlow"
    /\ \E ok \in BOOLEAN : \E answer \in Answers :
         IF ok
         THEN /\ pc' = "ragFlow"
              /\ exit' = exit
              /\ log' = log \o << Printf(FmtQuestion, <<QaQuestion>>),
                                  Printf(FmtReponse, <<answer>>),
                                  Println(<< >>),
                                  Println(LineDebut) >>
         ELSE pc' = "fatal" /\ exit' = "fatal" /\ log' = Append(log, Fatal(LLMError))
    /\ UNCHANGED <<ctxVars, ragOut, fnVars>>

\* ragFlow.Run enters the flow, which calls fetchCyclingContext.  The question
\* (trimmed, replaced by defaultCyclingQuery when blank) only goes into the
\* prompt text and is left out.
RagFlowRun ==
    /\ pc = "ragFlow"
    /\ pc' = "feedLoop"
    /\ feedIdx' = 1
    /\ snippets' = << >>
    /\ sources' = << >>
    /\ UNCHANGED <<urls, urlIdx, attempts, fetched, resolved, results,
                   ctxErr, ragOut, log, exit, fnVars>>

\* fetchCyclingContext calls fetchFirstWorkingFeed on the candidates of the
\* next source
CallResolver ==
    /\ pc = "feedLoop"
    /\ feedIdx <= Len(cyclingFeeds)
    /\ pc' = "resolve"
    /\ urls' = cyclingFeeds[feedIdx].urls
    /\ urlIdx' = 1
    /\ attempts' = << >>
    /\ UNCHANGED <<feedIdx, fetched, resolved, results, snippets,
                   sources, ctxErr, ragOut, log, exit, fnVars>>

\* fetchFirstWorkingFeed: one iteration of the loop over urls
FetchAttempt ==
    /\ pc = "resolve"
    /\ urlIdx <= Len(urls)
    /\ \E resp \in ProgramResponses :
         LET feedURL == urls[urlIdx]
             r == fetchRSSItems(feedURL, resp, maxItemsPerFeed)
         IN  /\ fetched' = Append(fetched, feedURL)
             /\ attempts' = Append(attempts,
                    [url |-> feedURL, transport |-> resp.transport,
                     StatusCode |-> resp.StatusCode, decodes |-> resp.decodes,
                     items |-> r.items, err |-> r.err])
             /\ IF Working(r)
                THEN /\ resolved' = [items |-> r.items, url |-> feedURL, err |-> NilErr]
                     /\ pc' = "resolved"
                     /\ UNCHANGED <<urlIdx, log>>
                ELSE /\ log' = IF r.err # NilErr
                               THEN Append(log, Printf(FmtAttemptFailed,
                                                       <<feedURL, r.err>>))
                               ELSE log
                     /\ urlIdx' = urlIdx + 1
                     /\ UNCHANGED <<pc, resolved>>
    /\ UNCHANGED <<feedIdx, urls, results, snippets, sources, ctxErr,
                   ragOut, exit, fnVars>>

\* fetchFirstWorkingFeed: the loop ended without a working URL
ResolverExhausted ==
    /\ pc = "resolve"
    /\ urlIdx > Len(urls)
    /\ resolved' = [items |-> << >>, url |-> "", err |-> AllSourcesExhausted(urls)]
    /\ pc' = "resolved"
    /\ UNCHANGED <<feedIdx, urls, urlIdx, attempts, fetched, results,
                   snippets, sources, ctxErr, ragOut, log, exit, fnVars>>

\* a variant that gives up on the remaining sources when one fails
AssembleFeedAbort ==
    /\ pc = "resolved"
    /\ IF resolved.err # NilErr
       THEN /\ log' = Append(log, Printf(FmtSkipFeed,
                                         <<cyclingFeeds[feedIdx].name, resolved.err>>))
            /\ feedIdx' = Len(cyclingFeeds) + 1
            /\ UNCHANGED <<snippets, sources>>
       ELSE LET after == AppendFeed([snippets |-> snippets, sources |-> sources],
                                    resolved.items, resolved.url)
            IN  /\ snippets' = after.snippets
                /\ sources' = after.sources
                /\ feedIdx' = feedIdx + 1
                /\ log' = log
    /\ results' = Append(results, resolved)
    /\ attempts' = << >>
    /\ pc' = "feedLoop"
    /\ UNCHANGED <<urls, urlIdx, fetched, resolved, ctxErr, ragOut, exit, fnVars>>

\* fetchCyclingContext: the rest of the loop body for the current source
AssembleFeed ==
    /\ pc = "resolved"
    /\ IF resolved.err # NilErr
       THEN /\ log' = Append(log, Printf(FmtSkipFeed,
                                         <<cyclingFeeds[feedIdx].name, resolved.err>>))
            /\ UNCHANGED <<snippets, sources>>
       ELSE LET after == AppendFeed([snippets |-> snippets, sources |-> sources],
                                    resolved.items, resolved.url)
            IN  /\ snippets' = after.snippets
                /\ sources' = after.sources
                /\ log' = log
    /\ results' = Append(results, resolved)
    /\ feedIdx' = feedIdx + 1
    /\ attempts' = << >>
    /\ pc' = "feedLoop"
    /\ UNCHANGED <<urls, urlIdx, fetched, resolved, ctxErr, ragOut, exit, fnVars>>

\* a variant that returns the snippets as they are
ContextReturnNoFallback ==
    /\ pc = "feedLoop"
    /\ feedIdx > Len(cyclingFeeds)
    /\ ctxErr' = NilErr
    /\ pc' = "generate"
    /\ UNCHANGED <<feedIdx, urls, urlIdx, attempts, fetched, resolved,
                   results, snippets, sources, ragOut, log, exit, fnVars>>

\* fetchCyclingContext: after the loop, the fallback and the return; the flow
\* goes on to the model call
ContextReturn ==
    /\ pc = "feedLoop"
    /\ feedIdx > Len(cyclingFeeds)
    /\ IF Len(snippets) = 0
       THEN /\ log' = Append(log, Printf(FmtWarning, << >>))
            /\ snippets' = Append(snippets, FallbackSnippet)
       ELSE UNCHANGED <<log, snippets>>
    /\ ctxErr' = NilErr
    /\ pc' = "generate"
    /\ UNCHANGED <<feedIdx, urls, urlIdx, attempts, fetched, resolved,
                   results, sources, ragOut, exit, fnVars>>

\* the flow after fetchCyclingContext: the check of its error, the
\* genkit.Generate call and the return to main
Generate ==
    /\ pc = "generate"
    /\ \E ok \in BOOLEAN : \E answer \in Answers :
         ragOut' = IF ctxErr # NilErr
                   THEN [answer |-> << >>, sources |-> << >>, err |-> ctxErr]
                   ELSE IF ok
                   THEN [answer |-> answer, sources |-> sources, err |-> NilErr]
                   ELSE [answer |-> << >>, sources |-> << >>, err |-> LLMError]
    /\ pc' = "ragReturned"
    /\ UNCHANGED <<ctxVars, log, exit, fnVars>>

\* main after ragFlow.Run: log the error or the summaries, then the end line
MainFinish ==
    /\ pc = "ragReturned"
    /\ log' = (IF ragOut.err # NilErr
               THEN Append(log, Printf(FmtRAGError, <<ragOut.err>>))
               ELSE log \o logRAGSummaries(ragOut.answer))
              \o <<Println(LineFin)>>
    /\ exit' = "ok"
    /\ pc' = "done"
    /\ UNCHANGED <<ctxVars, ragOut, fnVars>>

Next ==
    \/ GenkitInit
    \/ QaFlowRun
    \/ RagFlowRun
    \/ CallResolver
    \/ FetchAttempt
    \/ ResolverExhausted
    \/ AssembleFeed
    \/ ContextReturn
    \/ Generate
    \/ MainFinish

Spec == Init /\ [][Next]_vars

(***************************************************************************)
(* fetchFirstWorkingFeed on its own: one call on a list of up to MaxUrls   *)
(* candidate URLs, in which a URL may occur more than once, with the       *)
(* program's limit.                                                        *)
(***************************************************************************)
\* the state of main and of fetchCyclingContext outside a run
IdleMain ==
    /\ feedIdx = 0
    /\ results = << >>
    /\ snippets = << >>
    /\ sources = << >>
    /\ ctxErr = NilErr
    /\ ragOut = NoOutput
    /\ log = << >>
    /\ exit = "running"

\* the state of fetchFirstWorkingFeed outside a call
IdleResolver ==
    /\ urls = << >>
    /\ urlIdx = 0
    /\ attempts = << >>
    /\ fetched = << >>
    /\ resolved = NoResult

\* the URLs the candidate lists are made of
ResolverURLs == {cyclingFeeds[s].urls[1] : s \in 1..Len(cyclingFeeds)}

InitResolver ==
    /\ IdleMain
    /\ pc = "resolve"
    /\ urls \in SeqsUpTo(ResolverURLs, MaxUrls)
    /\ urlIdx = 1
    /\ attempts = << >>
    /\ fetched = << >>
    /\ resolved = NoResult
    /\ fnArg = << >>
    /\ fnRes = << >>
    /\ fnRes2 = << >>

NextResolver == FetchAttempt \/ ResolverExhausted

SpecResolver == InitResolver /\ [][NextResolver]_vars

(***************************************************************************)
(* fetchRSSItems on its own: one call on a response with up to MaxFeedLen  *)
(* items and any limit up to MaxFeedLen.                                   *)
(***************************************************************************)
InitFetch ==
    /\ IdleMain
    /\ IdleResolver
    /\ pc = "fetchRSSItems"
    /\ fnArg \in [feedURL : {cyclingFeeds[1].urls[1]},
                  resp : ResponsesOver(StatusCodes, SeqsUpTo({ItemA, ItemB}, MaxFeedLen)),
                  limit : 0..MaxFeedLen]
    /\ fnRes = << >>
    /\ fnRes2 = << >>

CallFetchRSSItems ==
    /\ pc = "fetchRSSItems"
    /\ fnRes' = fetchRSSItems(fnArg.feedURL, fnArg.resp, fnArg.limit)
    /\ pc' = "fetched"
    /\ UNCHANGED <<ctxVars, ragOut, log, exit, fnArg, fnRes2>>

NextFetch == CallFetchRSSItems

SpecFetch == InitFetch /\ [][NextFetch]_vars

(***************************************************************************)
(* filterTransferItems on its own: one call on a list of up to             *)
(* MaxFilterLen items, then a second call on the result of the first.      *)
(***************************************************************************)
FilterItems ==
    {ItemA, ItemB, ItemC, ItemD, ItemE, ItemF, ItemG, ItemH, ItemI, ItemJ}

InitFilter ==
    /\ IdleMain
    /\ IdleResolver
    /\ pc = "filter"
    /\ fnArg \in SeqsUpTo(FilterItems, MaxFilterLen)
    /\ fnRes = << >>
    /\ fnRes2 = << >>

CallFilter ==
    /\ pc = "filter"
    /\ fnRes' = filterTransferItems(fnArg)
    /\ pc' = "filtered"
    /\ UNCHANGED <<ctxVars, ragOut, log, exit, fnArg, fnRes2>>

CallFilterAgain ==
    /\ pc = "filtered"
    /\ fnRes2' = filterTransferItems(fnRes)
    /\ pc' = "refiltered"
    /\ UNCHANGED <<ctxVars, ragOut, log, exit, fnArg, fnRes>>

NextFilter == CallFilter \/ CallFilterAgain

SpecFilter == InitFilter /\ [][NextFilter]_vars

(***************************************************************************)
(* Vocabulary of the properties.                                           *)
(***************************************************************************)
InContext == pc \in {"feedLoop", "resolve", "resolved"}
Returned == pc \in {"generate", "ragReturned", "done"}
\* fetchCyclingContext has just returned
AtReturn == pc = "generate"
\* fetchCyclingContext is at the top of its loop over the sources
AtLoop == pc = "feedLoop"

\* a fetch that succeeded with at least one item
GoodAttempt(a) == a.err = NilErr /\ a.items # << >>
IsOk(r) == r.err = NilErr

RECURSIVE Flatten(_)
Flatten(seqs) == IF seqs = << >> THEN << >> ELSE Head(seqs) \o Flatten(Tail(seqs))

\* the title, lower-cased, holds one of the keywords somewhere
TitleMatches(it) ==
    LET t == [i \in 1..Len(it.Title) |-> ToLowerChar(it.Title[i])]
    IN  \E k \in 1..Len(transferKeywords) :
          \E a \in 1..Len(t) :
            /\ a + Len(transferKeywords[k]) - 1 <= Len(t)
            /\ \A j \in 1..Len(transferKeywords[k]) :
                  t[a + j - 1] = transferKeywords[k][j]

\* the items of a resolved source that contribute to the context
Retained(r) ==
    LET m == SelectSeq(r.items, TitleMatches) IN IF m = << >> THEN r.items ELSE m

\* "- <title> (<date>)", the date replaced by the placeholder when empty
LineOf(it) ==
    <<45, 32>> \o it.Title \o <<32, 40>>
      \o (IF Len(it.PubDate) = 0 THEN DateInconnue ELSE it.PubDate) \o <<41>>

NonEmptyLink(l) == l # ""

\* the lines and the URLs one resolved source contributes
SourceLines(r) ==
    LET kept == Retained(r) IN [j \in 1..Len(kept) |-> LineOf(kept[j])]

SourceLinks(r) ==
    LET kept == Retained(r)
    IN  SelectSeq([j \in 1..Len(kept) |-> kept[j].Link], NonEmptyLink) \o <<r.url>>

ExpectedSnippets(ok) == Flatten([s \in 1..Len(ok) |-> SourceLines(ok[s])])

ExpectedSources(ok) == Flatten([s \in 1..Len(ok) |-> SourceLinks(ok[s])])

\* what the code computes from the resolved sources alone, in order
RECURSIVE ContextOf(_, _, _)
ContextOf(ok, i, acc) ==
    IF i > Len(ok) THEN acc
    ELSE ContextOf(ok, i + 1, AppendFeed(acc, ok[i].items, ok[i].url))

\* the snippets that come from an item of a resolved source
FeedSnippets ==
    {i \in 1..Len(snippets) :
        \E s \in 1..Len(results) : \E j \in 1..Len(results[s].items) :
            snippets[i] = LineOf(results[s].items[j])}

\* main has logged the answer of qaFlow
QaDone == \E i \in 1..Len(log) : log[i].fmt = FmtReponse

\* the lines of logRAGSummaries in the log
SummaryLines ==
    {i \in 1..Len(log) : log[i].fmt = LineMutations \/ log[i].fmt = FmtSummary}

\* an upper bound of the steps fetchCyclingContext still takes
RECURSIVE CostFrom(_)
CostFrom(s) ==
    IF s > Len(cyclingFeeds) THEN 0
    ELSE Len(cyclingFeeds[s].urls) + 3 + CostFrom(s + 1)

StepsLeft ==
    CASE pc = "feedLoop" -> 1 + CostFrom(feedIdx)
      [] pc = "resolve"  -> 1 + CostFrom(feedIdx + 1) + (Len(urls) - urlIdx + 1) + 2
      [] pc = "resolved" -> 1 + CostFrom(feedIdx + 1) + 1
      [] OTHER -> 0

(***************************************************************************)
(* Properties.                                                             *)
(***************************************************************************)

\* C1: on every candidate list, fetchFirstWorkingFeed fetches the candidates
\* one at a time in list order, each position at most once; the first candidate
\* whose fetch succeeds with a non-empty item list ends the call, which returns
\* that candidate's items and URL with no error, and no later candidate is ever
\* fetched; a candidate that succeeds with an empty list is passed over like a
\* failed one.
C1_FirstWorkingCandidateWins ==
    LET n == Len(attempts)
    IN  /\ n <= Len(urls)
        /\ \A i \in 1..n : attempts[i].url = urls[i]
        /\ fetched = SubSeq(urls, 1, n)
        /\ \A i \in 1..n : GoodAttempt(attempts[i]) =>
               /\ i = n
               /\ pc = "resolved"
               /\ resolved = [items |-> attempts[i].items, url |-> urls[i],
                              err |-> NilErr]
        /\ pc = "resolve" => urlIdx = n + 1
        /\ pc = "resolved" /\ resolved.err = NilErr =>
               n >= 1 /\ GoodAttempt(attempts[n])
        /\ pc = "resolved" /\ resolved.err # NilErr => n = Len(urls)
        /\ pc = "resolved" => ~ENABLED NextResolver

\* a call on two candidates returned on the first one, after a single fetch
C1_Witness ==
    /\ pc = "resolved"
    /\ feedIdx = 0
    /\ Len(urls) = 2
    /\ fetched = <<urls[1]>>
    /\ resolved.err = NilErr
    /\ resolved.url = urls[1]
    /\ resolved.items # << >>

\* C2: when every candidate of a source fails or is empty, fetchFirstWorkingFeed
\* returns the error naming the URLs, no items and an empty URL;
\* fetchCyclingContext adds nothing for that source and goes on with every
\* other source: what it has accumulated is what the resolved sources alone
\* give, and at the return every configured source has been processed.
C2_ExhaustedSourceIsSkipped ==
    LET ctx == ContextOf(SelectSeq(results, IsOk), 1,
                         [snippets |-> << >>, sources |-> << >>])
    IN  /\ pc \in {"resolve", "resolved"} => urls = cyclingFeeds[feedIdx].urls
        /\ pc = "resolved" /\ (\A i \in 1..Len(attempts) : ~GoodAttempt(attempts[i])) =>
              resolved = [items |-> << >>, url |-> "",
                          err |-> [kind |-> "AllSourcesExhausted",
                                   urls |-> cyclingFeeds[feedIdx].urls]]
        /\ \A s \in 1..Len(results) :
              ~IsOk(results[s]) => results[s].items = << >> /\ results[s].url = ""
        /\ InContext => Len(results) = feedIdx - 1
        /\ AtLoop => /\ snippets = ctx.snippets
                     /\ sources = ctx.sources
        /\ Returned => Len(results) = Len(cyclingFeeds)
        /\ AtReturn => /\ sources = ctx.sources
                       /\ ctx.snippets # << >> => snippets = ctx.snippets

\* the candidate of the first source failed, the second source resolved, and
\* the context holds the second source's contribution
C2_Witness ==
    /\ pc = "generate"
    /\ results[1].err.kind = "AllSourcesExhausted"
    /\ IsOk(results[2])
    /\ Len(snippets) = 2
    /\ sources # << >>

\* C3: fetchCyclingContext never fails: whatever the fetches answer it
\* terminates (while it runs it can take a step, and every step it takes
\* brings the return nearer), returns a nil error and a non-empty snippet
\* list, with a snippet of a feed item when a source resolved.
C3_ContextNeverFails ==
    \* at "resolved" the only guard of AssembleFeed is that the source index is
    \* one of a configured source
    /\ [](/\ pc = "feedLoop" => ENABLED CallResolver \/ ENABLED ContextReturn
          /\ pc = "resolve" => ENABLED FetchAttempt \/ ENABLED ResolverExhausted
          /\ pc = "resolved" => feedIdx \in 1..Len(cyclingFeeds)
          /\ Returned => StepsLeft = 0 /\ ctxErr = NilErr /\ Len(snippets) >= 1
          /\ AtReturn =>
                ((\E s \in 1..Len(results) : IsOk(results[s])) => FeedSnippets # {}))
    /\ [][InContext => StepsLeft' < StepsLeft]_vars

\* fetchCyclingContext has returned after a failed fetch, a skipped source and
\* a resolved source
C3_Witness ==
    /\ pc = "generate"
    /\ ctxErr = NilErr
    /\ \E i \in 1..Len(log) : log[i].fmt = FmtAttemptFailed
    /\ \E s \in 1..Len(results) : ~IsOk(results[s])
    /\ \E s \in 1..Len(results) : IsOk(results[s])
    /\ FeedSnippets # {}

\* C4: when no snippet came from a feed item, fetchCyclingContext returns
\* exactly the fallback snippet and no source URL; the fallback is never there
\* beside a feed snippet, nor beside a source URL.
C4_FallbackOnlyWhenEmpty ==
    /\ AtReturn =>
          IF FeedSnippets = {}
          THEN snippets = <<FallbackSnippet>> /\ sources = << >>
          ELSE \A i \in 1..Len(snippets) : snippets[i] # FallbackSnippet
    /\ sources # << >> => \A i \in 1..Len(snippets) : snippets[i] # FallbackSnippet

\* the candidate of each source was fetched, none worked, and the context is
\* the fallback
C4_Witness ==
    /\ pc = "generate"
    /\ Len(fetched) = Len(cyclingFeeds)
    /\ snippets = <<FallbackSnippet>>
    /\ sources = << >>

\* C5: filterTransferItems is idempotent: filtering its result gives the same
\* list again.
C5_FilterIdempotent == pc = "refiltered" => fnRes2 = fnRes

\* a list of three items of which two were kept, filtered a second time
C5_Witness ==
    /\ pc = "refiltered"
    /\ Len(fnArg) = 3
    /\ Len(fnRes) = 2
    /\ fnRes2 # << >>

\* C6: filterTransferItems returns the items whose lower-cased title holds a
\* keyword, in their order and once each; when there is none it returns its
\* input, so the result of a non-empty input is never empty.
C6_FilterKeepsMatching ==
    pc \in {"filtered", "refiltered"} =>
        LET want == SelectSeq(fnArg, TitleMatches)
        IN  /\ fnRes = IF want = << >> THEN fnArg ELSE want
            /\ fnArg # << >> => fnRes # << >>

\* an item whose title holds three keywords, one whose upper-case title holds
\* none and one that holds a keyword once its U+0130 is lower-cased: the first
\* and the third are kept, once each
C6_Witness ==
    /\ pc = "filtered"
    /\ fnArg = <<ItemA, ItemH, ItemG>>
    /\ fnRes = <<ItemA, ItemG>>

\* C7: a successful fetchRSSItems returns the first min(n, limit) parsed items
\* in their order: with the limit of 5, the first 5 of a longer feed and the
\* whole of a feed of 5 items or fewer.
C7_TruncatesToLimit ==
    (/\ pc = "fetched"
     /\ fnArg.resp.transport
     /\ fnArg.resp.StatusCode >= 200 /\ fnArg.resp.StatusCode <= 299
     /\ fnArg.resp.decodes) =>
        LET n == Len(fnArg.resp.Items)
            m == IF n < fnArg.limit THEN n ELSE fnArg.limit
        IN  /\ fnRes.err = NilErr
            /\ Len(fnRes.items) = m
            /\ \A i \in 1..m : fnRes.items[i] = fnArg.resp.Items[i]
            /\ fnArg.limit = 5 /\ n > 5 => Len(fnRes.items) = 5
            /\ fnArg.limit = 5 /\ n <= 5 => fnRes.items = fnArg.resp.Items

\* a feed of six items fetched with the configured limit
C7_Witness ==
    /\ pc = "fetched"
    /\ fnArg.limit = maxItemsPerFeed
    /\ fnArg.resp.StatusCode = 200
    /\ Len(fnArg.resp.Items) = 6
    /\ fnRes.err = NilErr
    /\ Len(fnRes.items) = 5

\* C8: the snippets and the source URLs follow the declaration order of the
\* sources and the order of the items: one line "- <title> (<date>)" for each
\* retained item, the date replaced by the placeholder when empty; for each
\* resolved source the non-empty links of its retained items, then its feed
\* URL once; nothing is deduplicated.
C8_OrderedContext ==
    LET ok == SelectSeq(results, IsOk)
    IN  AtLoop \/ AtReturn =>
          /\ sources = ExpectedSources(ok)
          /\ snippets = IF AtReturn /\ ExpectedSnippets(ok) = << >>
                        THEN <<FallbackSnippet>>
                        ELSE ExpectedSnippets(ok)

\* the first source resolved with two items linking to its feed URL, the
\* second with an item without date: the URL is listed three times
C8_Witness ==
    /\ pc = "generate"
    /\ Len(results) = 2
    /\ results[1].items = <<ItemA, ItemA>>
    /\ results[2].items = <<ItemB>>
    /\ sources = <<cyclingFeeds[1].urls[1], cyclingFeeds[1].urls[1],
                   cyclingFeeds[1].urls[1], cyclingFeeds[2].urls[1]>>
    /\ Len(snippets) = 3
    /\ snippets[1] = snippets[2]

\* C9: a fetch ends in NetworkError on a transport failure, else in
\* HTTPStatusError on a status outside 200-299 whatever the body, else in
\* ParseError on a body that does not decode, else in success; an error comes
\* with no items, makes fetchFirstWorkingFeed go on past the candidate (to the
\* next one, or to its own error when there is none), and never reaches the
\* caller of fetchCyclingContext.
C9_FetchErrorsAreContained ==
    /\ \A i \in 1..Len(attempts) :
         LET a == attempts[i]
         IN  /\ a.err.kind =
                  IF ~a.transport THEN "NetworkError"
                  ELSE IF a.StatusCode < 200 \/ a.StatusCode > 299
                       THEN "HTTPStatusError"
                  ELSE IF ~a.decodes THEN "ParseError"
                  ELSE "nil"
             /\ a.err.kind # "nil" =>
                  /\ a.items = << >>
                  /\ \/ i < Len(attempts)
                     \/ pc = "resolve" /\ urlIdx = i + 1
                     \/ pc = "resolved" /\ resolved.err.kind = "AllSourcesExhausted"
    /\ \A s \in 1..Len(results) :
         results[s].err.kind \in {"nil", "AllSourcesExhausted"}
    /\ ctxErr = NilErr
    /\ ragOut.err.kind \in {"nil", "LLMError"}

\* the first source was skipped; the candidate of the second answered a
\* non-2xx status with a well-formed feed, and the call ended in the
\* resolver's own error
C9_Witness ==
    /\ pc = "resolved"
    /\ feedIdx = 2
    /\ ~IsOk(results[1])
    /\ Len(attempts) = 1
    /\ attempts[1].err.kind = "HTTPStatusError" /\ attempts[1].decodes
    /\ attempts[1].items = << >>
    /\ resolved.err.kind = "AllSourcesExhausted"

\* C10: cyclingRAG, and with it any fetch, starts only after qaFlow has
\* succeeded; a failure of genkit.Init or of qaFlow ends the process before any
\* fetch; a failure of the model call in cyclingRAG is logged, gives no summary,
\* and the program still writes its last log line.
C10_FlowOrder ==
    /\ pc \notin {"init", "qaFlow", "fatal"} => QaDone
    /\ fetched # << >> => QaDone
    /\ exit = "fatal" => pc = "fatal" /\ ~QaDone /\ fetched = << >> /\ ~ENABLED Next
    \* after ragFlow.Run returned, whatever it returned, the process is still
    \* running; the position is the only guard of MainFinish
    /\ pc = "ragReturned" => exit = "running"
    /\ pc = "done" =>
         /\ exit = "ok"
         /\ log[Len(log)] = Println(LineFin)
         /\ ragOut.err # NilErr =>
              /\ ragOut.answer = << >>
              /\ \E i \in 1..Len(log) : log[i].fmt = FmtRAGError
              /\ SummaryLines = {}

\* the model call of cyclingRAG failed after feeds were fetched, and the
\* program ended normally
C10_Witness ==
    /\ pc = "done"
    /\ ragOut.err.kind = "LLMError"
    /\ fetched # << >>
    /\ exit = "ok"

====
